---- MODULE Spec2Model ----
(***************************************************************************)
(* Model of the document markup renderers of the DocumentPreview component *)
(* (src/unnamed/part_003): parseContentWithTables (preview),               *)
(* handleDownloadTxt, generateA4ExportHTML (image) and handleDownloadPdf.  *)
(*                                                                         *)
(* Text is a sequence of one-character strings.  In the HTML built by      *)
(* generateA4ExportHTML every literal tag the code writes is one element   *)
(* of the sequence ("<table>", "<th>", ...): the tags hold no marker, no   *)
(* newline and no '|', so searching and splitting see them as the code     *)
(* sees the tag text.                                                      *)
(*                                                                         *)
(* The logo is the logoBase64 state the loadLogo effect sets when a fetch  *)
(* was read; Spec follows the renderers over the documents with the logo   *)
(* still loading, SpecLogo follows the logo effect, the exports that read  *)
(* logoBase64 and the awaits of handleDownloadImage over a few documents.  *)
(***************************************************************************)
EXTENDS Integers, Sequences, FiniteSets, TLC

VARIABLES content, op, out, logoUrl, logoBase64, calls, exportPc, img,
          toast, saved, thrown

\* the logo state of the component: the configured collegeSettings.logo_url,
\* the logoBase64 state and the loadLogo calls made so far with their outcome
logoVars == <<logoUrl, logoBase64, calls>>

\* the image export in progress: the await handleDownloadImage stands at and
\* the state of the img element of its container
imageVars == <<exportPc, img>>

\* what the user is shown: the toast on display, the file of the last download
\* and the number of exports that threw
uiVars == <<toast, saved, thrown>>

vars == <<content, op, out, logoVars, imageVars, uiVars>>

(***************************************************************************)
(* Bounds                                                                  *)
(***************************************************************************)
\* number of fragments a generated document is made of
MaxFrags == 3
\* number of loadLogo calls in a run of the component
MaxLoads == 3
\* number of exports that throw in a run of the component
MaxThrows == 1
\* number of columns of a generated wide table
MaxCols == 46
\* number of characters of a cell of a generated wide table
MaxCell == 3
\* number of fragments a generated file path is made of
MaxPathFrags == 5
\* number of characters of a generated short text
MaxText == 52
\* number of iterations of the chunking loop that are followed
MaxChunks == 3
\* number of fragments a generated request field is made of
MaxFieldFrags == 4
\* number of row fragments inside a generated table
MaxRows == 3
\* number of short lines in a generated long document
MaxLines == 46
\* number of wrapped pieces of the long line of a generated long document
MaxPieces == 3
\* characters of body text (9pt) the PDF text measurement fits into maxWidth
WrapCols == 8

(***************************************************************************)
(* JavaScript string primitives                                            *)
(***************************************************************************)
TABLE_OPEN == <<"[", "T", "A", "B", "L", "E", "]">>
TABLE_CLOSE == <<"[", "/", "T", "A", "B", "L", "E", "]">>
FOOTER_OPEN == <<"[", "F", "O", "O", "T", "E", "R", "_", "R", "O", "W", "]">>
FOOTER_CLOSE == <<"[", "/", "F", "O", "O", "T", "E", "R", "_", "R", "O", "W", "]">>

\* the characters String.prototype.trim removes, as far as documents hold them
WhiteSpace == {" ", "\n"}

Min(S) == CHOOSE x \in S : \A y \in S : x <= y
Max(S) == CHOOSE x \in S : \A y \in S : x >= y

\* s.indexOf(pat, from): zero-based position of the first occurrence at or
\* after from, -1 when there is none
IndexOfFrom(s, pat, from) ==
  LET hits == {i \in from..(Len(s) - Len(pat)) :
                 SubSeq(s, i + 1, i + Len(pat)) = pat}
  IN IF hits = {} THEN -1 ELSE Min(hits)

IndexOf(s, pat) == IndexOfFrom(s, pat, 0)

Includes(s, pat) == IndexOf(s, pat) # -1

Clamp(i, n) == IF i < 0 THEN 0 ELSE IF i > n THEN n ELSE i

\* s.substring(a, b): both indices clamped to [0, length], swapped when a > b
Substring(s, a, b) ==
  LET ca == Clamp(a, Len(s))
      cb == Clamp(b, Len(s))
      lo == IF ca <= cb THEN ca ELSE cb
      hi == IF ca <= cb THEN cb ELSE ca
  IN SubSeq(s, lo + 1, hi)

SubstringFrom(s, a) == Substring(s, a, Len(s))

\* s.trim()
Trim(s) ==
  LET keep == {i \in 1..Len(s) : s[i] \notin WhiteSpace}
  IN IF keep = {} THEN <<>> ELSE SubSeq(s, Min(keep), Max(keep))

\* s.split(sep) for a one-character separator: always at least one piece
Split(s, sep) ==
  LET cuts == {i \in 1..Len(s) : s[i] = sep}
      n == Cardinality(cuts)
      \* position of the k-th separator, 0 before the first, Len+1 after the last
      cut[k \in 0..(n + 1)] ==
        IF k = 0 THEN 0
        ELSE IF k = n + 1 THEN Len(s) + 1
        ELSE CHOOSE i \in cuts : Cardinality({j \in cuts : j < i}) = k - 1
  IN [k \in 1..(n + 1) |-> SubSeq(s, cut[k - 1] + 1, cut[k] - 1)]

\* xs.map(x => x.trim())
MapTrim(xs) == [k \in 1..Len(xs) |-> Trim(xs[k])]

\* the cells of a row, not trimmed
SplitCellsUntrimmed(row) == Split(row, "|")

\* row.split('|').map(cell => cell.trim())
SplitCells(row) == MapTrim(Split(row, "|"))

\* xs.filter(row => row.trim())
IsNonBlank(row) == Trim(row) # <<>>
FilterNonBlank(xs) == SelectSeq(xs, IsNonBlank)

\* xs.join('')
RECURSIVE Flatten(_)
Flatten(xs) == IF xs = <<>> THEN <<>> ELSE Head(xs) \o Flatten(Tail(xs))

\* s.replace(/pat/g, '') for a literal pattern: scanning resumes in the
\* original text right after each match
RECURSIVE RemoveAll(_, _)
RemoveAll(s, pat) ==
  LET i == IndexOf(s, pat)
  IN IF i = -1 THEN s
     ELSE SubSeq(s, 1, i) \o RemoveAll(SubstringFrom(s, i + Len(pat)), pat)

\* s.match(/\[FOOTER_ROW\]([\s\S]*?)\[\/FOOTER_ROW\]/): the leftmost opening
\* marker that has a closing marker after it, with the nearest such closing
\* marker; start = -1 when there is no match
FooterMatch(s) ==
  LET i == IndexOf(s, FOOTER_OPEN)
      j == IF i = -1 THEN -1 ELSE IndexOfFrom(s, FOOTER_CLOSE, i + Len(FOOTER_OPEN))
  IN IF j = -1
     THEN [start |-> -1, end |-> -1, inner |-> <<>>]
     ELSE [start |-> i, end |-> j + Len(FOOTER_CLOSE),
           inner |-> SubSeq(s, i + Len(FOOTER_OPEN) + 1, j)]

\* s.replace(/\[FOOTER_ROW\][\s\S]*?\[\/FOOTER_ROW\]/g, '')
RECURSIVE RemoveFooterSpans(_)
RemoveFooterSpans(s) ==
  LET m == FooterMatch(s)
  IN IF m.start = -1 THEN s
     ELSE SubSeq(s, 1, m.start) \o RemoveFooterSpans(SubstringFrom(s, m.end))

(***************************************************************************)
(* parseFooterRow and parseContentWithTables (preview)                     *)
(***************************************************************************)
NoFooter == [type |-> "none"]

parseFooterRow(text) ==
  LET m == FooterMatch(text)
      parts == SplitCells(Trim(m.inner))
  IN IF m.start = -1 THEN NoFooter
     ELSE IF Len(parts) # 3 THEN NoFooter
     ELSE [type |-> "footer", parts |-> parts]

\* the <pre> element pushed for a text run
PreNode(text) == [type |-> "pre", text |-> text]

\* the <table> element pushed for a table block with at least one row
PreviewTable(rows) ==
  [type |-> "table",
   header |-> SplitCells(rows[1]),
   rows |-> [k \in 1..(Len(rows) - 1) |-> SplitCells(rows[k + 1])],
   tints |-> [k \in 1..(Len(rows) - 1) |->
                IF (k - 1) % 2 = 0 THEN "#ffffff" ELSE "#f0f4f8"]]

\* the while loop of parseContentWithTables and the final text push
RECURSIVE PreviewLoop(_, _)
PreviewLoop(remaining, parts) ==
  LET tableStart == IndexOf(remaining, TABLE_OPEN)
      tableEnd == IndexOf(remaining, TABLE_CLOSE)
      textBefore == Substring(remaining, 0, tableStart)
      withText == IF Trim(textBefore) # <<>>
                  THEN Append(parts, PreNode(textBefore)) ELSE parts
      tableContent == Trim(Substring(remaining, tableStart + 7, tableEnd))
      rows == FilterNonBlank(Split(tableContent, "\n"))
      withTable == IF Len(rows) > 0
                   THEN Append(withText, PreviewTable(rows)) ELSE withText
  IN IF tableStart = -1 \/ tableEnd = -1
     THEN IF Trim(remaining) # <<>>
          THEN Append(parts, PreNode(remaining)) ELSE parts
     ELSE PreviewLoop(SubstringFrom(remaining, tableEnd + 8), withTable)

parseContentWithTables(text) ==
  LET hasMarker == Includes(text, FOOTER_OPEN)
      footerRow == IF hasMarker THEN parseFooterRow(text) ELSE NoFooter
      remaining == IF hasMarker THEN RemoveFooterSpans(text) ELSE text
      parts == PreviewLoop(remaining, <<>>)
  IN IF footerRow # NoFooter THEN Append(parts, footerRow) ELSE parts

(***************************************************************************)
(* handleDownloadTxt                                                       *)
(***************************************************************************)
plainContent(text) == RemoveAll(RemoveAll(text, TABLE_OPEN), TABLE_CLOSE)

(***************************************************************************)
(* Heading test shared by the export renderers                             *)
(***************************************************************************)
LowerLetters ==
  <<"a", "b", "c", "d", "e", "f", "g", "h", "i", "j", "k", "l", "m",
    "n", "o", "p", "q", "r", "s", "t", "u", "v", "w", "x", "y", "z">>
UpperLetters ==
  <<"A", "B", "C", "D", "E", "F", "G", "H", "I", "J", "K", "L", "M",
    "N", "O", "P", "Q", "R", "S", "T", "U", "V", "W", "X", "Y", "Z">>
Digits == {"0", "1", "2", "3", "4", "5", "6", "7", "8", "9"}

\* the literal tags generateA4ExportHTML writes; each holds lower-case letters
TableOpenTag == "<table>"
TableCloseTag == "</tbody></table>"
HtmlTags ==
  {TableOpenTag, "<thead><tr>", "<th>", "</th>", "</tr></thead>", "<tbody>",
   "<tr #ffffff>", "<tr #f0f4f8>", "<td>", "</td>", "</tr>", TableCloseTag}

UpperChar(c) ==
  IF c \in HtmlTags THEN "<UPPERCASED TAG>"
  ELSE IF \E k \in 1..26 : LowerLetters[k] = c
       THEN UpperLetters[CHOOSE k \in 1..26 : LowerLetters[k] = c]
       ELSE c

\* s.toUpperCase()
ToUpperCase(s) == [k \in 1..Len(s) |-> UpperChar(s[k])]

\* /[A-Z]/.test(s)
HasUpperLetter(s) == \E k \in 1..Len(s) : \E u \in 1..26 : s[k] = UpperLetters[u]

StartsWith(s, pat) == Len(s) >= Len(pat) /\ SubSeq(s, 1, Len(pat)) = pat

\* an upper-case test that takes lines of any length
IsUpperCandidateAnyLength(trimmedLine) ==
  /\ trimmedLine = ToUpperCase(trimmedLine)
  /\ Len(trimmedLine) > 0
  /\ HasUpperLetter(trimmedLine)

\* trimmedLine === trimmedLine.toUpperCase() && trimmedLine.length > 3 &&
\* /[A-Z]/.test(trimmedLine)
IsUpperCandidate(trimmedLine) ==
  /\ trimmedLine = ToUpperCase(trimmedLine)
  /\ Len(trimmedLine) > 3
  /\ HasUpperLetter(trimmedLine)

KW_TIME_TABLE == <<"T", "I", "M", "E", " ", "T", "A", "B", "L", "E">>
KW_CIRCULAR == <<"C", "I", "R", "C", "U", "L", "A", "R">>
KW_NOTICE == <<"N", "O", "T", "I", "C", "E">>
KW_EXAMINATION == <<"E", "X", "A", "M", "I", "N", "A", "T", "I", "O", "N">>
KW_NOTES == <<"N", "O", "T", "E", "S">>
KW_HAPPY == <<"H", "A", "P", "P", "Y">>

PdfKeywords == {KW_TIME_TABLE, KW_CIRCULAR, KW_NOTICE, KW_EXAMINATION, KW_HAPPY}
ImageKeywords == PdfKeywords \cup {KW_NOTES}

HasKeyword(trimmedLine, keywords) == \E k \in keywords : Includes(trimmedLine, k)

(***************************************************************************)
(* generateA4ExportHTML (image)                                            *)
(***************************************************************************)
HtmlHeaderCell(cell) == <<"<th>">> \o cell \o <<"</th>">>
HtmlDataCell(cell) == <<"<td>">> \o cell \o <<"</td>">>

HtmlDataRow(row, rowIdx) ==
  <<IF rowIdx % 2 = 0 THEN "<tr #ffffff>" ELSE "<tr #f0f4f8>">>
  \o Flatten([k \in 1..Len(row) |-> HtmlDataCell(row[k])])
  \o <<"</tr>">>

\* tableHTML for the non-blank lines of a table block
tableHTML(rows) ==
  LET headerRow == SplitCells(rows[1])
      dataRows == [k \in 1..(Len(rows) - 1) |-> SplitCells(rows[k + 1])]
  IN <<TableOpenTag, "<thead><tr>">>
     \o Flatten([k \in 1..Len(headerRow) |-> HtmlHeaderCell(headerRow[k])])
     \o <<"</tr></thead>", "<tbody>">>
     \o Flatten([k \in 1..Len(dataRows) |-> HtmlDataRow(dataRows[k], k - 1)])
     \o <<TableCloseTag>>

Hang == [status |-> "hang"]

\* the 'Convert tables' loop.  Two of its paths never leave the loop:
\*  - a block without a non-blank line leaves processedContent as it is, so
\*    the next iteration is the same iteration;
\*  - with the first [/TABLE] before the first [TABLE], substring swaps its
\*    arguments, the "interior" holds both markers, and the new text is the old
\*    one with the table HTML inserted: it grows on every iteration, the first
\*    [/TABLE] stays in front of every [TABLE], and the loop goes on until the
\*    engine gives up on the size of the string.
RECURSIVE ConvertTables(_)
ConvertTables(processedContent) ==
  LET tableStart == IndexOf(processedContent, TABLE_OPEN)
      tableEnd == IndexOf(processedContent, TABLE_CLOSE)
      tableContent == Trim(Substring(processedContent, tableStart + 7, tableEnd))
      rows == FilterNonBlank(Split(tableContent, "\n"))
  IN IF tableStart = -1 \/ tableEnd = -1
     THEN [status |-> "ok", text |-> processedContent]
     ELSE IF Len(rows) = 0 \/ tableEnd < tableStart
     THEN Hang
     ELSE ConvertTables(Substring(processedContent, 0, tableStart)
                        \o tableHTML(rows)
                        \o SubstringFrom(processedContent, tableEnd + 8))

REF_NO == <<"R", "e", "f", ".", "N", "o">>
DATE_COLON == <<"D", "a", "t", "e", ":">>

\* /^\d+\./
IsNumbered(trimmedLine) ==
  \E n \in 1..(Len(trimmedLine) - 1) :
     /\ \A k \in 1..n : trimmedLine[k] \in Digits
     /\ trimmedLine[n + 1] = "."

\* one iteration of 'for (const line of lines)': the element appended to
\* htmlContent
HtmlLine(line) ==
  LET trimmedLine == Trim(line)
      isHeading == /\ IsUpperCandidate(trimmedLine)
                   /\ ~ (trimmedLine # <<>> /\ Head(trimmedLine) \in HtmlTags)
  IN IF \/ (trimmedLine # <<>> /\ Head(trimmedLine) = TableOpenTag)
        \/ \E k \in 1..Len(trimmedLine) : trimmedLine[k] = TableCloseTag
     THEN [kind |-> "raw", line |-> line]
     ELSE IF isHeading /\ HasKeyword(trimmedLine, ImageKeywords)
     THEN [kind |-> "heading", line |-> trimmedLine]
     ELSE IF StartsWith(trimmedLine, REF_NO) \/ StartsWith(trimmedLine, DATE_COLON)
     THEN [kind |-> "ref", line |-> line]
     ELSE IF IsNumbered(trimmedLine)
     THEN [kind |-> "item", line |-> line]
     ELSE IF trimmedLine # <<>>
     THEN [kind |-> "body", line |-> line]
     ELSE [kind |-> "blank", line |-> <<>>]

\* the logoBase64 state before any logo was loaded
NoLogo == [url |-> "", image |-> FALSE]

\* the container of the image export without an img element
NoImg == [state |-> "none", src |-> NoLogo, handlers |-> FALSE]

\* the logo slot of the letterhead: the img element when logoBase64 is set, the
\* spacer otherwise
LogoSlot(logo) ==
  IF logo # NoLogo THEN [kind |-> "img", src |-> logo] ELSE [kind |-> "spacer"]

\* the A4 document: the logo slot of the letterhead and the content part, the
\* elements of htmlContent followed by footerRowHTML
generateA4ExportHTML(text, logo) ==
  LET footerMatch == FooterMatch(text)
      parts == SplitCells(Trim(footerMatch.inner))
      footerRowHTML == IF footerMatch.start # -1 /\ Len(parts) = 3
                       THEN <<[kind |-> "footer", parts |-> parts]>>
                       ELSE <<>>
      stripped == IF footerMatch.start # -1 THEN RemoveFooterSpans(text) ELSE text
      converted == ConvertTables(stripped)
      lines == Split(converted.text, "\n")
  IN IF converted = Hang THEN Hang
     ELSE [status |-> "ok", logo |-> LogoSlot(logo),
           html |-> [k \in 1..Len(lines) |-> HtmlLine(lines[k])] \o footerRowHTML]

(***************************************************************************)
(* handleDownloadPdf                                                       *)
(*                                                                         *)
(* Lengths are in half millimetres, so that lineHeight / 2 is an integer.  *)
(* The result is the list of drawing calls with the page and the cursor    *)
(* position of each.                                                       *)
(***************************************************************************)
mm(x) == 2 * x

\* pdf.internal.pageSize of the 'a4' portrait format
pageWidth == mm(210)
pageHeight == mm(297)
margin == mm(15)
maxWidth == pageWidth - 2 * margin
lineHeight == mm(5)
cellHeight == mm(6)
cellPadding == mm(2)

\* bottom limits tested before a text line and before a table row
textLimit == pageHeight - margin - mm(15)
rowLimit == pageHeight - margin - cellHeight - mm(10)

\* pdf.splitTextToSize(line, maxWidth) in the fixed-pitch body font: a line of
\* at most WrapCols characters is one piece; a longer line is cut into pieces
\* of WrapCols characters (the way jsPDF cuts text without a space to break at)
RECURSIVE Chunks(_, _)
Chunks(line, n) ==
  IF Len(line) <= n THEN <<line>>
  ELSE <<SubSeq(line, 1, n)>> \o Chunks(SubSeq(line, n + 1, Len(line)), n)

splitTextToSize(line) == Chunks(line, WrapCols)

\* pdf.getTextWidth at 7pt Courier: 0.6 em per character, in micrometres
textWidthUm(text) == Len(text) * ((6 * 7 * 25400) \div (10 * 72))

displayTextWhole(cellText, maxTextWidthUm) == cellText

\* the truncation loop: drop characters from the end until the text fits
RECURSIVE displayText(_, _)
displayText(cellText, maxTextWidthUm) ==
  IF textWidthUm(cellText) > maxTextWidthUm /\ Len(cellText) > 0
  THEN displayText(SubSeq(cellText, 1, Len(cellText) - 1), maxTextWidthUm)
  ELSE cellText

Draw(st, call) == [st EXCEPT !.ops = Append(@, call)]
Advance(st, dy) == [st EXCEPT !.y = @ + dy]

addPageWithLetterhead(st) ==
  [y |-> margin + mm(5), page |-> st.page + 1,
   ops |-> st.ops \o << [op |-> "addPage", page |-> st.page + 1],
                        [op |-> "letterhead", page |-> st.page + 1, y |-> margin] >>]

\* pdf.addPage(); pdf.rect(...); yPosition = margin + 5
addPage(st) ==
  [y |-> margin + mm(5), page |-> st.page + 1,
   ops |-> Append(st.ops, [op |-> "addPage", page |-> st.page + 1])]

BreakIfBelow(st, limit) == IF st.y > limit THEN addPage(st) ELSE st

\* the wrapped pieces of a body line after the last table: page test per piece
RECURSIVE DrawPiecesChecked(_, _)
DrawPiecesChecked(st, pieces) ==
  IF pieces = <<>> THEN st
  ELSE LET at == BreakIfBelow(st, textLimit)
           drawn == Draw(at, [op |-> "text", page |-> at.page, y |-> at.y,
                              text |-> Head(pieces), where |-> "last"])
       IN DrawPiecesChecked(Advance(drawn, lineHeight), Tail(pieces))

\* the wrapped pieces of a body line before a table: no page test per piece
RECURSIVE DrawPieces(_, _)
DrawPieces(st, pieces) ==
  IF pieces = <<>> THEN st
  ELSE LET drawn == Draw(st, [op |-> "text", page |-> st.page, y |-> st.y,
                              text |-> Head(pieces), where |-> "before"])
       IN DrawPieces(Advance(drawn, lineHeight), Tail(pieces))

\* one line of the text after the last table (no [TABLE] left)
LastTextLine(st, line) ==
  LET at == BreakIfBelow(st, textLimit)
      trimmedLine == Trim(line)
  IN IF IsUpperCandidate(trimmedLine) /\ HasKeyword(trimmedLine, PdfKeywords)
     THEN Draw(at, [op |-> "heading", page |-> at.page, y |-> at.y,
                    text |-> line, where |-> "last"])
     ELSE IF trimmedLine # <<>>
     THEN DrawPiecesChecked(at, splitTextToSize(line))
     ELSE Advance(at, lineHeight \div 2)

\* one line of the text before a table
TextBeforeLine(st, line) ==
  LET at == BreakIfBelow(st, textLimit)
      trimmedLine == Trim(line)
  IN IF IsUpperCandidate(trimmedLine)
     THEN Advance(Draw(at, [op |-> "heading", page |-> at.page, y |-> at.y,
                            text |-> line, where |-> "before"]),
                  lineHeight)
     ELSE IF trimmedLine # <<>>
     THEN DrawPieces(at, splitTextToSize(line))
     ELSE Advance(at, lineHeight \div 2)

RECURSIVE LastTextLines(_, _)
LastTextLines(st, lines) ==
  IF lines = <<>> THEN st
  ELSE LastTextLines(LastTextLine(st, Head(lines)), Tail(lines))

TextBeforeLinesSkipped(st, lines) == st

RECURSIVE TextBeforeLines(_, _)
TextBeforeLines(st, lines) ==
  IF lines = <<>> THEN st
  ELSE TextBeforeLines(TextBeforeLine(st, Head(lines)), Tail(lines))

\* maxTextWidth = colWidth - 2 * cellPadding with colWidth = (maxWidth - 4) /
\* numCols, in micrometres
maxTextWidthUm(numCols) ==
  ((maxWidth - mm(4)) * 500) \div numCols - cellPadding * 2 * 500

\* the cells of a row drawn without the blank cells of the missing columns
RowCellsOwn(row, numCols) ==
  [c \in 1..Len(row) |-> displayText(row[c], maxTextWidthUm(numCols))]

\* row[colIdx] || '' for colIdx < numCols, each truncated to its column
RowCells(row, numCols) ==
  [c \in 1..numCols |->
     displayText(IF c <= Len(row) THEN row[c] ELSE <<>>, maxTextWidthUm(numCols))]

colWidthUmOfText(numCols) == (maxWidth * 500) \div numCols

\* colWidth = (maxWidth - 4) / numCols, in micrometres
colWidthUm(numCols) == ((maxWidth - mm(4)) * 500) \div numCols

\* cellX = margin + 2 + colIdx * colWidth, in micrometres
cellXUm(colIdx, numCols) == (margin + mm(2)) * 500 + colIdx * colWidthUm(numCols)

\* the 'for rowIdx' loop over allCells
RECURSIVE DrawRows(_, _, _, _)
DrawRows(st, allCells, rowIdx, numCols) ==
  IF rowIdx >= Len(allCells) THEN st
  ELSE LET at == BreakIfBelow(st, rowLimit)
           drawn == Draw(at, [op |-> "row", page |-> at.page, y |-> at.y,
                              rowIdx |-> rowIdx,
                              isHeader |-> (rowIdx = 0),
                              shaded |-> (rowIdx # 0 /\ rowIdx % 2 # 0),
                              row |-> allCells[rowIdx + 1],
                              cells |-> RowCells(allCells[rowIdx + 1], numCols),
                              x |-> [c \in 1..numCols |-> cellXUm(c - 1, numCols)],
                              colWidth |-> colWidthUm(numCols)])
       IN DrawRows(Advance(drawn, cellHeight), allCells, rowIdx + 1, numCols)

\* a table block with at least one non-blank line
DrawTable(st, rows) ==
  LET allCells == [k \in 1..Len(rows) |-> SplitCells(rows[k])]
      numCols == Max({Len(allCells[k]) : k \in 1..Len(allCells)})
  IN Advance(DrawRows(Advance(st, mm(3)), allCells, 0, numCols), mm(5))

\* the 'while (remaining.length > 0)' loop
RECURSIVE PdfLoop(_, _)
PdfLoop(remaining, st) ==
  LET tableStart == IndexOf(remaining, TABLE_OPEN)
      tableEnd == IndexOf(remaining, TABLE_CLOSE)
      afterText == TextBeforeLines(st, Split(Substring(remaining, 0, tableStart), "\n"))
      tableContent == Trim(Substring(remaining, tableStart + 7, tableEnd))
      rows == FilterNonBlank(Split(tableContent, "\n"))
      afterTable == IF Len(rows) > 0 THEN DrawTable(afterText, rows) ELSE afterText
  IN IF Len(remaining) = 0 THEN st
     ELSE IF tableStart = -1 THEN LastTextLines(st, Split(remaining, "\n"))
     ELSE IF tableEnd = -1 THEN afterText
     ELSE PdfLoop(SubstringFrom(remaining, tableEnd + 8), afterTable)

\* the footer row, drawn when footerRowContent has three parts
DrawFooterInPlace(st, footerRowContent) ==
  LET at == Advance(Advance(st, mm(8)), mm(5))
  IN Draw(at, [op |-> "footer", page |-> at.page, y |-> at.y,
               parts |-> footerRowContent,
               weights |-> <<"normal", "normal", "bold">>])

\* the footer row: a new page when it does not fit, the left and the centre
\* part in courier normal, the right part in courier bold
DrawFooter(st, footerRowContent) ==
  LET at == Advance(BreakIfBelow(Advance(st, mm(8)), textLimit), mm(5))
  IN Draw(at, [op |-> "footer", page |-> at.page, y |-> at.y,
               parts |-> footerRowContent,
               weights |-> <<"normal", "normal", "bold">>])

\* pdf.addImage of the logo: drawn when logoBase64 is set and holds an image,
\* an addImage that throws is caught and draws nothing
LogoOps(logo) ==
  IF logo # NoLogo /\ logo.image
  THEN << [op |-> "logo", page |-> 1, y |-> margin, src |-> logo] >>
  ELSE << >>

\* page border, logo, letterhead lines and rule of the first page
Letterhead(logo) ==
  [y |-> margin + mm(7) + mm(4) + mm(4) + mm(12) + mm(8), page |-> 1,
   ops |-> LogoOps(logo) \o
           << [op |-> "letterhead", page |-> 1, y |-> margin],
              [op |-> "rule", page |-> 1,
               y |-> margin + mm(7) + mm(4) + mm(4) + mm(12)] >>]

handleDownloadPdfOps(text, logo) ==
  LET footerMatch == FooterMatch(text)
      footerRowContent == SplitCells(Trim(footerMatch.inner))
      remaining == IF footerMatch.start # -1 THEN RemoveFooterSpans(text) ELSE text
      body == PdfLoop(remaining, Letterhead(logo))
  IN IF footerMatch.start # -1 /\ Len(footerRowContent) = 3
     THEN DrawFooter(body, footerRowContent).ops
     ELSE body.ops

(***************************************************************************)
(* Documents                                                               *)
(***************************************************************************)
\* a well-formed footer row, a second one, and one with two parts only
FOOTER_3 == FOOTER_OPEN \o <<"\n", "L", " ", "|", " ", "C", " ", "|", " ", "R", "\n">> \o FOOTER_CLOSE
FOOTER_3B == FOOTER_OPEN \o <<"P", "|", "Q", "|", "S">> \o FOOTER_CLOSE
FOOTER_2 == FOOTER_OPEN \o <<"L", "|", "R">> \o FOOTER_CLOSE
\* a table block of a header and one data row
TABLE_AB == TABLE_OPEN \o <<"\n", "A", " ", "|", " ", "B", "\n", "1", " ", "|", " ", "2", "\n">> \o TABLE_CLOSE

Frags ==
  { <<"x">>, <<"\n">>, TABLE_OPEN, TABLE_CLOSE,
    <<"[", "T", "A", "B">>, <<"[", "/", "T", "A", "B">>, <<"L", "E", "]">>,
    FOOTER_3, FOOTER_3B, FOOTER_2, TABLE_AB }

RECURSIVE Concats(_, _)
Concats(S, n) ==
  IF n = 0 THEN {<<>>}
  ELSE LET shorter == Concats(S, n - 1)
       IN shorter \cup {d \o f : d \in shorter, f \in S}

\* documents made of up to MaxFrags fragments
FragDocs == Concats(Frags, MaxFrags) \ {<<>>}

\* the lines a generated table block is made of: regular, short, long, blank
RowTexts ==
  { <<"\n", "A", " ", "|", " ", "B">>, <<"\n", "1", " ", "|", " ", "2">>,
    <<"\n", "3", " ", "|", " ", "4">>, <<"\n", "5">>,
    <<"\n", "6", "|", "7", "|", "8">>, <<"\n", " ">> }

\* documents of one table block of up to MaxRows lines, with or without text
\* after it
TableDocs ==
  {TABLE_OPEN \o rows \o <<"\n">> \o TABLE_CLOSE \o post :
     rows \in Concats(RowTexts, MaxRows), post \in {<<>>, <<"\n", "y">>}}

Repeat(s, n) == Flatten([k \in 1..n |-> s])

\* documents long enough to reach the bottom of the first page: short lines,
\* then one line that wraps into several pieces, around a table or a footer
PageDocs ==
  {pre \o Repeat(<<"a", "\n">>, n) \o Repeat(<<"b">>, k * WrapCols) \o post :
     pre \in {<<>>, TABLE_AB \o <<"\n">>},
     n \in (MaxLines - 5)..MaxLines,
     k \in 0..MaxPieces,
     post \in {<<>>, <<"\n">> \o TABLE_AB, <<"\n">> \o FOOTER_3}} \ {<<>>}

\* lines that are or are not headings: with a keyword of the PDF, with the
\* keyword only the image has, upper case without a keyword, upper case of
\* three characters, mixed case, digits
HeadLines ==
  { KW_NOTICE, KW_NOTES, <<"A", "B", "C", "D">>, <<"A", "B", "C">>,
    <<"A", "b", "c", "d">>, <<"1", "2", "3", "4">> }

\* documents with such a line before a table, after it, or with no table,
\* with or without a footer row
HeadingDocs ==
  {pre \o mid \o post \o foot :
     pre \in HeadLines \cup {<<>>},
     mid \in {<<"\n">>, <<"\n">> \o TABLE_AB \o <<"\n">>},
     post \in HeadLines \cup {<<>>},
     foot \in {<<>>, FOOTER_3}}

Docs == FragDocs \cup TableDocs \cup PageDocs \cup HeadingDocs

(***************************************************************************)
(* The component: content is the document it is mounted with, op the       *)
(* operation that ran last and out what that operation rendered            *)
(***************************************************************************)
\* the values of collegeSettings.logo_url, the empty one for a missing value
Urls == {"", "a.png", "b.png"}

\* the URL loadLogo fetches
FetchUrl(u) == IF u = "" THEN "/default-logo.png" ELSE u

\* the state after the component mounted: nothing rendered yet, logoBase64
\* empty and the loadLogo call of the mount effect in flight
Mounted ==
  /\ op = "mount"
  /\ out = <<>>
  /\ logoUrl \in Urls
  /\ logoBase64 = NoLogo
  /\ calls = <<[url |-> FetchUrl(logoUrl), state |-> "pending"]>>
  /\ exportPc = "idle"
  /\ img = NoImg
  /\ toast = "none"
  /\ saved = "none"
  /\ thrown = 0

Init ==
  /\ content \in Docs
  /\ logoUrl = "a.png"
  /\ Mounted

Render ==
  /\ op' = "preview"
  /\ out' = parseContentWithTables(content)
  /\ UNCHANGED <<content, logoVars, imageVars, uiVars>>

handleDownloadTxt ==
  /\ op' = "txt"
  /\ out' = plainContent(content)
  /\ saved' = "txt"
  /\ toast' = "success"
  /\ UNCHANGED <<content, logoVars, imageVars, thrown>>

handleDownloadImage ==
  /\ op' = "image"
  /\ out' = generateA4ExportHTML(content, logoBase64)
  /\ toast' = "loading"
  /\ UNCHANGED <<content, logoVars, imageVars, saved, thrown>>

handleDownloadPdf ==
  /\ op' = "pdf"
  /\ out' = handleDownloadPdfOps(content, logoBase64)
  /\ saved' = "pdf"
  /\ toast' = "success"
  /\ UNCHANGED <<content, logoVars, imageVars, thrown>>

Next == Render \/ handleDownloadTxt \/ handleDownloadImage \/ handleDownloadPdf

Spec == Init /\ [][Next]_vars

(***************************************************************************)
(* The process-document function (src/unnamed/part_002): the file path of  *)
(* a request.  content is body.filePath, out what validateFilePath gives   *)
(***************************************************************************)
\* user.id of the authenticated user
USER_ID == <<"u">>

\* value.slice(0, maxLength).trim()
validateString(value, maxLength) == Trim(SubSeq(value, 1, Min({Len(value), maxLength})))

\* s.replace(/^\/+/, '')
RECURSIVE RemoveLeadingSlashes(_)
RemoveLeadingSlashes(s) ==
  IF s # <<>> /\ Head(s) = "/" THEN RemoveLeadingSlashes(Tail(s)) ELSE s

PATH_UP == <<".", ".", "/">>
PATH_UP_BACK == <<".", ".", "\\">>

validateFilePath(filePath, userId) ==
  LET sanitized == Trim(RemoveLeadingSlashes(
                     RemoveAll(RemoveAll(filePath, PATH_UP), PATH_UP_BACK)))
  IN IF ~ StartsWith(sanitized, userId \o <<"/">>)
     THEN [status |-> "throw"]
     ELSE [status |-> "ok", path |-> sanitized]

\* the pieces the file paths of the requests are made of
PathFrags == {<<"u", "/">>, <<"/">>, <<".">>, PATH_UP, PATH_UP_BACK, <<"f">>, <<" ">>}

FilePaths ==
  UNION {{Flatten(fs) : fs \in [1..n -> PathFrags]} : n \in 0..MaxPathFrags}

InitPath ==
  /\ content \in FilePaths
  /\ logoUrl = "a.png"
  /\ Mounted

\* the request handler up to the download: the path is cut to 500 characters
\* and trimmed, refused when empty, then validated for the user
serveFilePath ==
  /\ op = "mount"
  /\ LET rawFilePath == validateString(content, 500)
     IN /\ op' = "validateFilePath"
        /\ out' = IF rawFilePath = <<>> THEN [status |-> "throw"]
                  ELSE validateFilePath(rawFilePath, USER_ID)
  /\ UNCHANGED <<content, logoVars, imageVars, uiVars>>

NextPath == serveFilePath

SpecPath == InitPath /\ [][NextPath]_vars

(***************************************************************************)
(* The process-document function: chunkText, one iteration of its loop a   *)
(* step.  content is the text, out the locals start and chunks until the   *)
(* function returns and the returned chunks after                          *)
(***************************************************************************)
chunkSize == 500
overlap == 50

\* text.slice(start, end) for 0 <= start <= end <= text.length
Slice(text, start, end) == SubSeq(text, start + 1, end)

\* chunks.filter(chunk => chunk.trim().length > 20)
IsLongChunk(chunk) == Len(Trim(chunk)) > 20

\* lengths of the generated long texts: around one chunk and around two
LongLengths == {chunkSize - 1, chunkSize, chunkSize + 1, 2 * chunkSize - overlap + 1}

\* a text of n characters c
Fill(c, n) == [k \in 1..n |-> c]

\* the extracted texts: letters, blanks, and a blank stretch before letters
Texts ==
  {Fill(c, n) : c \in {"a", " "}, n \in (0..MaxText) \cup LongLengths}
  \cup {Fill(" ", chunkSize) \o Fill("a", n) : n \in 0..MaxText}

InitChunk ==
  /\ content \in Texts
  /\ logoUrl = "a.png"
  /\ Mounted

\* chunkText(text) is entered: chunks = [], start = 0
chunkTextCalled ==
  /\ op = "mount"
  /\ op' = "chunkText"
  /\ out' = [start |-> 0, chunks |-> <<>>]
  /\ UNCHANGED <<content, logoVars, imageVars, uiVars>>

\* one iteration of 'while (start < text.length)', left by 'break' when the
\* new start is negative
chunkTextLoop ==
  /\ op = "chunkText"
  /\ out.start < Len(content)
  /\ Len(out.chunks) < MaxChunks
  /\ LET end == Min({out.start + chunkSize, Len(content)})
         chunks == Append(out.chunks, Slice(content, out.start, end))
         start == end - overlap
     IN IF start < 0
        THEN /\ op' = "return"
             /\ out' = SelectSeq(chunks, IsLongChunk)
        ELSE /\ op' = "chunkText"
             /\ out' = [start |-> start, chunks |-> chunks]
  /\ UNCHANGED <<content, logoVars, imageVars, uiVars>>

\* the loop condition is false: the filtered chunks are returned
chunkTextReturn ==
  /\ op = "chunkText"
  /\ ~ (out.start < Len(content))
  /\ op' = "return"
  /\ out' = SelectSeq(out.chunks, IsLongChunk)
  /\ UNCHANGED <<content, logoVars, imageVars, uiVars>>

NextChunk == chunkTextCalled \/ chunkTextLoop \/ chunkTextReturn

SpecChunk == InitChunk /\ [][NextChunk]_vars

(***************************************************************************)
(* The generate-document function                                          *)
(* (src/supabase/functions/generate-document/index.ts): a string field of  *)
(* a request.  content is the field as sent, out the field as validated    *)
(***************************************************************************)
P_SYSTEM ==
  <<"[", "S", "Y", "S", "T", "E", "M", "]">>
P_USER ==
  <<"[", "U", "S", "E", "R", "]">>
P_ASSISTANT ==
  <<"[", "A", "S", "S", "I", "S", "T", "A", "N", "T", "]">>
P_IGNORE ==
  <<"I", "G", "N", "O", "R", "E", " ", "P", "R", "E", "V", "I", "O", "U",
    "S", " ", "I", "N", "S", "T", "R", "U", "C", "T", "I", "O", "N", "S">>
P_DISREGARD ==
  <<"D", "I", "S", "R", "E", "G", "A", "R", "D", " ", "A", "L", "L">>

\* s.replace(/pat/gi, '') for a literal pattern given in upper case: the
\* matches are found whatever the case of the text, scanning resumes in the
\* original text right after each match
RECURSIVE RemoveAllAnyCase(_, _)
RemoveAllAnyCase(s, pat) ==
  LET i == IndexOf(ToUpperCase(s), pat)
  IN IF i = -1 THEN s
     ELSE SubSeq(s, 1, i) \o RemoveAllAnyCase(SubstringFrom(s, i + Len(pat)), pat)

sanitizeForPrompt(text) ==
  Trim(RemoveAllAnyCase(RemoveAllAnyCase(RemoveAllAnyCase(RemoveAllAnyCase(
    RemoveAllAnyCase(text, P_SYSTEM), P_USER), P_ASSISTANT), P_IGNORE), P_DISREGARD))

\* the pieces the string fields of the requests are made of
FieldFrags ==
  {<<"[", "S", "Y", "S">>, <<"T", "E", "M", "]">>, <<"[", "s", "y", "s", "t", "e", "m", "]">>,
   P_USER, P_DISREGARD, <<"d", "i", "s", "r", "e">>, <<"g", "a", "r", "d", " ", "a", "l", "l">>,
   <<"x">>, <<" ">>}

Fields ==
  UNION {{Flatten(fs) : fs \in [1..n -> FieldFrags]} : n \in 0..MaxFieldFrags}

InitField ==
  /\ content \in Fields
  /\ logoUrl = "a.png"
  /\ Mounted

\* validateRequest for one string field: cut to 200 characters and trimmed,
\* then sanitized
validateRequest ==
  /\ op = "mount"
  /\ op' = "sanitizeForPrompt"
  /\ out' = sanitizeForPrompt(validateString(content, 200))
  /\ UNCHANGED <<content, logoVars, imageVars, uiVars>>

NextField == validateRequest

SpecField == InitField /\ [][NextField]_vars

(***************************************************************************)
(* The component with a wide table: up to MaxCols columns, so narrow that  *)
(* the PDF cuts the text of the cells                                      *)
(***************************************************************************)
\* a row of n cells of the given text
WideRow(n, cell) == Flatten([c \in 1..n |-> IF c = 1 THEN cell ELSE <<"|">> \o cell])

\* a table with a header of n cells and a data row of fewer cells
WideDocs ==
  {TABLE_OPEN \o <<"\n">> \o WideRow(n, Repeat(<<"W">>, len)) \o <<"\n">>
   \o WideRow((n + 1) \div 2, Repeat(<<"w">>, len + 1)) \o <<"\n">> \o TABLE_CLOSE :
     n \in 1..MaxCols, len \in 0..MaxCell}

InitWide ==
  /\ content \in WideDocs
  /\ logoUrl = "a.png"
  /\ Mounted

NextWide == Render \/ handleDownloadPdf

SpecWide == InitWide /\ [][NextWide]_vars

(***************************************************************************)
(* The component with its logo: the loadLogo effect, the exports that read *)
(* logoBase64 and the awaits of handleDownloadImage                        *)
(***************************************************************************)
\* the documents of the runs with a logo
LogoDocs == {<<"x">>, TABLE_AB \o FOOTER_3, TABLE_OPEN \o TABLE_CLOSE}

InitLogo ==
  /\ content \in LogoDocs
  /\ Mounted

\* the loadLogo calls whose fetch and read have not ended
PendingCalls == {i \in 1..Len(calls) : calls[i].state = "pending"}

\* the main thread runs the handlers: it does not while a handler loops
Responsive == exportPc # "hung"

\* collegeSettings.logo_url changes: the effect runs loadLogo for the new URL
SetLogoUrl ==
  /\ Responsive
  /\ Len(calls) < MaxLoads
  /\ \E u \in Urls \ {logoUrl} :
       /\ logoUrl' = u
       /\ calls' = Append(calls, [url |-> FetchUrl(u), state |-> "pending"])
  /\ UNCHANGED <<content, op, out, logoBase64, imageVars, uiVars>>

\* reader.onloadend of a loadLogo call: the fetch resolved, with the image or
\* with the body of an error response, and its data URL is set as logoBase64
onloadend ==
  /\ Responsive
  /\ \E i \in PendingCalls, image \in BOOLEAN :
       /\ logoBase64' = [url |-> calls[i].url, image |-> image]
       /\ calls' = [calls EXCEPT ![i].state = "read"]
  /\ UNCHANGED <<content, op, out, logoUrl, imageVars, uiVars>>

\* the fetch of a loadLogo call rejects: the catch logs, logoBase64 is left
loadLogoFailed ==
  /\ Responsive
  /\ \E i \in PendingCalls : calls' = [calls EXCEPT ![i].state = "failed"]
  /\ UNCHANGED <<content, op, out, logoUrl, logoBase64, imageVars, uiVars>>

\* handleDownloadPdf while the main thread is free
exportPdf ==
  /\ Responsive
  /\ handleDownloadPdf

\* handleDownloadImage up to its first await: the container is filled with the
\* A4 document, whose img element starts loading
exportImage ==
  /\ exportPc = "idle"
  /\ content # <<>>
  /\ LET a4HTML == generateA4ExportHTML(content, logoBase64)
     IN /\ op' = "image"
        /\ out' = a4HTML
        /\ exportPc' = IF a4HTML = Hang THEN "hung" ELSE "timeout"
        /\ img' = IF a4HTML # Hang /\ logoBase64 # NoLogo
                  THEN [state |-> "loading", src |-> logoBase64, handlers |-> FALSE]
                  ELSE NoImg
  /\ toast' = "loading"
  /\ UNCHANGED <<content, logoVars, saved, thrown>>

\* the img element of the container fires load
imgOnload ==
  /\ img.state = "loading"
  /\ img.src.image
  /\ img' = [img EXCEPT !.state = "loaded"]
  /\ UNCHANGED <<content, op, out, logoVars, exportPc, uiVars>>

\* the img element of the container fires error
imgOnerror ==
  /\ img.state = "loading"
  /\ ~ img.src.image
  /\ img' = [img EXCEPT !.state = "error"]
  /\ UNCHANGED <<content, op, out, logoVars, exportPc, uiVars>>

\* the 500ms timer fires: an image that is not complete gets the onload and
\* onerror handlers and is awaited, with none of them html2canvas is called
timeoutFired ==
  /\ exportPc = "timeout"
  /\ exportPc' = IF img.state = "loading" THEN "images" ELSE "html2canvas"
  /\ img' = [img EXCEPT !.handlers = (img.state = "loading")]
  /\ UNCHANGED <<content, op, out, logoVars, uiVars>>

\* Promise.all over the awaited images resolves: html2canvas is called
imagesSettled ==
  /\ exportPc = "images"
  /\ img.state # "loading"
  /\ exportPc' = "html2canvas"
  /\ UNCHANGED <<content, op, out, logoVars, img, uiVars>>

\* html2canvas ends: the container is removed, the PNG is downloaded, the
\* loading toast gives way to the success toast and the handler returns
html2canvasEnded ==
  /\ exportPc = "html2canvas"
  /\ exportPc' = "idle"
  /\ img' = NoImg
  /\ saved' = "png"
  /\ toast' = "success"
  /\ UNCHANGED <<content, op, out, logoVars, thrown>>

\* html2canvas rejects: the catch of handleDownloadImage dismisses the loading
\* toast and shows the error toast, the container stays in the document
html2canvasThrows ==
  /\ exportPc = "html2canvas"
  /\ thrown < MaxThrows
  /\ thrown' = thrown + 1
  /\ exportPc' = "idle"
  /\ toast' = "error"
  /\ UNCHANGED <<content, op, out, logoVars, img, saved>>

\* a jsPDF call of handleDownloadPdf throws: the handler has no catch, the
\* promise it returned rejects and nothing of the component changes
pdfThrows ==
  /\ Responsive
  /\ thrown < MaxThrows
  /\ thrown' = thrown + 1
  /\ UNCHANGED <<content, op, out, logoVars, imageVars, toast, saved>>

NextLogo ==
  \/ SetLogoUrl \/ onloadend \/ loadLogoFailed
  \/ exportPdf \/ exportImage
  \/ imgOnload \/ imgOnerror \/ timeoutFired \/ imagesSettled \/ html2canvasEnded
  \/ html2canvasThrows \/ pdfThrows

SpecLogo == InitLogo /\ [][NextLogo]_vars

\* timers, image events and promise continuations are run by the event loop
FairSpecLogo ==
  /\ SpecLogo
  /\ WF_vars(imgOnload) /\ WF_vars(imgOnerror)
  /\ WF_vars(timeoutFired) /\ WF_vars(imagesSettled) /\ WF_vars(html2canvasEnded)

(***************************************************************************)
(* Reading the outputs                                                     *)
(***************************************************************************)
\* zero-based positions of all occurrences of pat in s
Occurrences(s, pat) ==
  {i \in 0..(Len(s) - Len(pat)) : SubSeq(s, i + 1, i + Len(pat)) = pat}

IsChar(c) == c \notin HtmlTags /\ c \notin WhiteSpace
\* the visible characters of a text, in order
Visible(s) == SelectSeq(s, IsChar)

IsSuffix(t, s) == Len(t) <= Len(s) /\ SubSeq(s, Len(s) - Len(t) + 1, Len(s)) = t

\* the cells between the tags open and close, in order
RECURSIVE TagCells(_, _, _)
TagCells(tokens, open, close) ==
  LET i == IndexOf(tokens, <<open>>)
      j == IndexOfFrom(tokens, <<close>>, i + 1)
  IN IF i = -1 \/ j = -1 THEN <<>>
     ELSE <<SubSeq(tokens, i + 2, j)>> \o TagCells(SubstringFrom(tokens, j + 1), open, close)

\* the data rows of a <tbody>, each with its cells
RECURSIVE TagRows(_)
TagRows(tokens) ==
  LET j == IndexOf(tokens, <<"</tr>">>)
  IN IF j = -1 THEN <<>>
     ELSE <<TagCells(SubSeq(tokens, 1, j), "<td>", "</td>")>>
          \o TagRows(SubstringFrom(tokens, j + 1))

\* the tables written into one line of the image HTML
RECURSIVE TagTables(_)
TagTables(tokens) ==
  LET i == IndexOf(tokens, <<TableOpenTag>>)
      j == IndexOfFrom(tokens, <<TableCloseTag>>, i + 1)
      b == IndexOfFrom(tokens, <<"<tbody>">>, i + 1)
  IN IF i = -1 \/ j = -1 THEN <<>>
     ELSE << [header |-> TagCells(SubSeq(tokens, i + 1, b), "<th>", "</th>"),
              rows |-> TagRows(SubSeq(tokens, b + 2, j))] >>
          \o TagTables(SubstringFrom(tokens, j + 1))

\* the grids of the tables of each renderer's output, in order
PreviewGrids(o) ==
  LET tables == SelectSeq(o, LAMBDA n : n.type = "table")
  IN [k \in 1..Len(tables) |-> [header |-> tables[k].header, rows |-> tables[k].rows]]

ImageGrids(o) ==
  LET raw == SelectSeq(o.html, LAMBDA e : e.kind = "raw")
  IN Flatten([k \in 1..Len(raw) |-> TagTables(raw[k].line)])

RECURSIVE PdfGridsFrom(_, _)
PdfGridsFrom(rowOps, grids) ==
  IF rowOps = <<>> THEN grids
  ELSE IF Head(rowOps).isHeader
  THEN PdfGridsFrom(Tail(rowOps), Append(grids, [header |-> Head(rowOps).row, rows |-> <<>>]))
  ELSE PdfGridsFrom(Tail(rowOps),
                    [grids EXCEPT ![Len(grids)].rows = Append(@, Head(rowOps).row)])

PdfRowOps(o) == SelectSeq(o, LAMBDA d : d.op = "row")
PdfGrids(o) == PdfGridsFrom(PdfRowOps(o), <<>>)

\* the k-th smallest element of a set of positions
Nth(S, k) == CHOOSE i \in S : Cardinality({a \in S : a < i}) = k - 1

\* the table interiors of a text whose markers are paired, in order
Interiors(s) ==
  LET opens == Occurrences(s, TABLE_OPEN)
      closes == Occurrences(s, TABLE_CLOSE)
  IN [k \in 1..Cardinality(opens) |-> SubSeq(s, Nth(opens, k) + 8, Nth(closes, k))]

\* [TABLE] and [/TABLE] alternate, starting with [TABLE] and ending with
\* [/TABLE], and every block has a non-blank line
Paired(s) ==
  LET opens == Occurrences(s, TABLE_OPEN)
      closes == Occurrences(s, TABLE_CLOSE)
      n == Cardinality(opens)
  IN /\ Cardinality(closes) = n
     /\ \A k \in 1..n :
          /\ Nth(opens, k) < Nth(closes, k)
          /\ k < n => Nth(closes, k) < Nth(opens, k + 1)
          /\ Trim(Interiors(s)[k]) # <<>>

\* the grid the markup grammar gives a table interior: its non-blank lines,
\* the first the header, the others the data rows, cells split on '|', trimmed
GrammarCells(line) ==
  LET parts == Split(line, "|")
  IN [k \in 1..Len(parts) |-> Trim(parts[k])]

GrammarGrid(interior) ==
  LET lines == Split(interior, "\n")
      nonBlank == SelectSeq(lines, LAMBDA l : \E k \in 1..Len(l) : l[k] \notin WhiteSpace)
  IN [header |-> GrammarCells(nonBlank[1]),
      rows |-> [k \in 1..(Len(nonBlank) - 1) |-> GrammarCells(nonBlank[k + 1])]]

GrammarGrids(s) ==
  LET ins == Interiors(s) IN [k \in 1..Len(ins) |-> GrammarGrid(ins[k])]

\* the example of the table parse
EXAMPLE_TABLE ==
  TABLE_OPEN
  \o <<"\n", "A", " ", "|", " ", "B", "\n", "1", " ", "|", " ", "2",
       "\n", "3", " ", "|", " ", "4", "\n">>
  \o TABLE_CLOSE
EXAMPLE_GRID ==
  [header |-> << <<"A">>, <<"B">> >>,
   rows |-> << << <<"1">>, <<"2">> >>, << <<"3">>, <<"4">> >> >>]

Renderers == {"preview", "pdf", "image"}

\* the renderer of an operation applied to a text
RenderOf(o, text) ==
  CASE o = "preview" -> parseContentWithTables(text)
    [] o = "pdf" -> handleDownloadPdfOps(text, logoBase64)
    [] o = "image" -> generateA4ExportHTML(text, logoBase64)

\* the renderer returned
Finished(o, result) == o = "image" => result.status = "ok"

\* the elements of an output, in order
Elements(o, result) == IF o = "image" THEN result.html ELSE result

IsFooterElement(o, e) ==
  CASE o = "preview" -> e.type = "footer"
    [] o = "pdf" -> e.op = "footer"
    [] o = "image" -> e.kind = "footer"

\* text and table elements: text runs, wrapped lines, headings, table rows
IsSegment(o, e) ==
  CASE o = "preview" -> e.type \in {"pre", "table"}
    [] o = "pdf" -> e.op \in {"text", "heading", "row"}
    [] o = "image" -> e.kind # "footer"

Footers(o, result) == SelectSeq(Elements(o, result), LAMBDA e : IsFooterElement(o, e))
Segments(o, result) == SelectSeq(Elements(o, result), LAMBDA e : IsSegment(o, e))

\* the grids of the tables of an output
Grids(o, result) ==
  CASE o = "preview" -> PreviewGrids(result)
    [] o = "pdf" -> PdfGrids(result)
    [] o = "image" -> ImageGrids(result)

\* the text an element shows as ordinary text
ElementText(o, e) ==
  CASE o = "preview" -> IF e.type = "pre" THEN e.text ELSE <<>>
    [] o = "pdf" -> IF e.op \in {"text", "heading"} THEN e.text ELSE <<>>
    [] o = "image" -> IF e.kind = "footer" THEN <<>> ELSE e.line

\* the visible characters an output shows as ordinary text, in order
RenderedText(o, result) ==
  LET es == Elements(o, result)
  IN Visible(Flatten([k \in 1..Len(es) |-> ElementText(o, es[k])]))

\* the text left for the table scan
Body(s) == RemoveFooterSpans(s)

\* the only [FOOTER_ROW]...[/FOOTER_ROW] span of a text that has one opening
\* and one closing marker, in this order
HasOneSpan(s) ==
  /\ Cardinality(Occurrences(s, FOOTER_OPEN)) = 1
  /\ Cardinality(Occurrences(s, FOOTER_CLOSE)) = 1
  /\ Nth(Occurrences(s, FOOTER_OPEN), 1) < Nth(Occurrences(s, FOOTER_CLOSE), 1)

SpanStart(s) == Nth(Occurrences(s, FOOTER_OPEN), 1)
SpanEnd(s) == Nth(Occurrences(s, FOOTER_CLOSE), 1) + Len(FOOTER_CLOSE)
SpanInterior(s) == SubSeq(s, SpanStart(s) + Len(FOOTER_OPEN) + 1, SpanEnd(s) - Len(FOOTER_CLOSE))
SpanText(s) == SubSeq(s, SpanStart(s) + 1, SpanEnd(s))
WithoutSpan(s) == SubSeq(s, 1, SpanStart(s)) \o SubSeq(s, SpanEnd(s) + 1, Len(s))

\* the interior splits on '|' into exactly three parts
ThreeParts(interior) == Cardinality({k \in 1..Len(interior) : interior[k] = "|"}) = 2

\* C1: for a document with exactly one footer span, well-formed, wherever it
\* sits, each renderer emits the footer as the last element of its output and
\* before it exactly what it emits for the document with the span removed
C1_FooterLast ==
  (op \in Renderers /\ HasOneSpan(content) /\ ThreeParts(SpanInterior(content))) =>
     /\ Finished(op, out)
     /\ Len(Footers(op, out)) = 1
     /\ IsFooterElement(op, Elements(op, out)[Len(Elements(op, out))])
     /\ Footers(op, out)[1].parts = GrammarCells(SpanInterior(content))
     /\ Finished(op, RenderOf(op, WithoutSpan(content)))
     /\ Segments(op, out) = Segments(op, RenderOf(op, WithoutSpan(content)))

\* a [TABLE] marker with no [/TABLE] marker after it: the position of the first
DanglingAt(s) ==
  LET dangling == {i \in Occurrences(s, TABLE_OPEN) :
                     \A j \in Occurrences(s, TABLE_CLOSE) : j < i}
  IN IF dangling = {} THEN -1 ELSE Min(dangling)

\* C2: when a [TABLE] marker has no [/TABLE] after it, every renderer that
\* returns renders the dangling marker and all text after it as ordinary text
C2_DanglingKept ==
  (op \in Renderers /\ DanglingAt(Body(content)) # -1 /\ Finished(op, out)) =>
     IsSuffix(Visible(SubstringFrom(Body(content), DanglingAt(Body(content)))),
                 RenderedText(op, out))

\* C3: every renderer parses each table interior of a document with paired
\* markers to the grid of the grammar: non-blank lines, the first the header,
\* the others the data rows in order, cells split on '|' and trimmed; so the
\* three renderers agree, and the example gives header [A,B], rows [[1,2],[3,4]]
C3_SameGrid ==
  (op \in Renderers /\ Paired(Body(content))) =>
     /\ Finished(op, out)
     /\ Grids(op, out) = GrammarGrids(Body(content))
     /\ content = EXAMPLE_TABLE => Grids(op, out) = <<EXAMPLE_GRID>>

C3_Witness ==
  /\ op = "image"
  /\ content = EXAMPLE_TABLE
  /\ ImageGrids(out) = <<EXAMPLE_GRID>>

\* the cells drawn for the rows of the tables, in order
DrawnGrids(o, result) ==
  IF o = "pdf"
  THEN LET rs == PdfRowOps(result)
       IN PdfGridsFrom([k \in 1..Len(rs) |-> [isHeader |-> rs[k].isHeader, row |-> rs[k].cells]],
                       <<>>)
  ELSE ImageGrids(result)

\* a row cut or padded with blank cells to n cells
FitRow(row, n) == [c \in 1..n |-> IF c <= Len(row) THEN row[c] ELSE <<>>]

\* a grid with every data row cut or padded to the length of the header
FitToHeader(g) ==
  [header |-> g.header,
   rows |-> [k \in 1..Len(g.rows) |-> FitRow(g.rows[k], Len(g.header))]]

\* C4 as stated: in the PDF and the image every row of a table is rendered with
\* exactly as many cells as the header, extra cells ignored, missing ones blank
C4_RowsFollowHeader ==
  (op \in {"pdf", "image"} /\ Paired(Body(content))) =>
     LET grammar == GrammarGrids(Body(content))
     IN DrawnGrids(op, out) = [k \in 1..Len(grammar) |-> FitToHeader(grammar[k])]

IsPrefix(t, s) == Len(t) <= Len(s) /\ SubSeq(s, 1, Len(t)) = t

\* the longest row of a grid, header included
Widest(g) == Max({Len(g.header)} \cup {Len(g.rows[k]) : k \in 1..Len(g.rows)})

\* the text fits the text width of a column of a table of n columns
Fits(text, n) == Len(text) = 0 \/ textWidthUm(text) <= maxTextWidthUm(n)

\* drawn is source with blank cells appended up to n cells, every cell whole
\* when it fits its column and cut at its end to the longest fit otherwise
DrawnFrom(drawn, source, n) ==
  /\ Len(drawn) = n
  /\ \A c \in 1..n :
       IF c <= Len(source)
       THEN /\ IsPrefix(drawn[c], source[c])
            /\ Fits(drawn[c], n)
            /\ drawn[c] # source[c] => ~ Fits(SubSeq(source[c], 1, Len(drawn[c]) + 1), n)
       ELSE drawn[c] = <<>>

\* C4 as amended: the PDF draws every row of a table, the header included, with
\* as many cells as the longest row of the table, no cell ignored (a cell wider
\* than its column cut at its end) and missing cells blank; the image draws
\* each row with exactly its own cells
C4_RowsFollowWidest ==
  (op \in {"pdf", "image"} /\ Paired(Body(content))) =>
     LET grammar == GrammarGrids(Body(content))
         drawn == DrawnGrids(op, out)
     IN /\ Len(drawn) = Len(grammar)
        /\ op = "image" => drawn = grammar
        /\ op = "pdf" =>
             \A k \in 1..Len(grammar) :
                /\ DrawnFrom(drawn[k].header, grammar[k].header, Widest(grammar[k]))
                /\ Len(drawn[k].rows) = Len(grammar[k].rows)
                /\ \A r \in 1..Len(grammar[k].rows) :
                     DrawnFrom(drawn[k].rows[r], grammar[k].rows[r], Widest(grammar[k]))

\* a table with a header of two cells, a shorter row and a longer row
RAGGED_TABLE ==
  TABLE_OPEN
  \o <<"\n", "A", " ", "|", " ", "B", "\n", "5", "\n", "6", "|", "7", "|", "8", "\n">>
  \o TABLE_CLOSE

C4_Witness ==
  /\ op = "pdf"
  /\ content = RAGGED_TABLE
  /\ DrawnGrids(op, out) =
       << [header |-> << <<"A">>, <<"B">>, <<>> >>,
           rows |-> << << <<"5">>, <<>>, <<>> >>, << <<"6">>, <<"7">>, <<"8">> >> >>] >>

\* C5: in the PDF every wrapped text line and heading is drawn at a cursor
\* position of at most pageHeight - margin - 15 plus one line height, and every
\* table row at a position of at most pageHeight - margin - cellHeight - 10
C5_NothingBelowBottom ==
  op = "pdf" =>
     \A k \in 1..Len(out) :
        /\ out[k].op \in {"text", "heading"} => out[k].y <= textLimit + lineHeight
        /\ out[k].op = "row" => out[k].y <= rowLimit

\* the text with the characters of every occurrence of [TABLE] and of [/TABLE]
\* in it deleted
WithoutMarkers(s) ==
  LET covered(k) ==
        \/ \E i \in Occurrences(s, TABLE_OPEN) : i < k /\ k <= i + Len(TABLE_OPEN)
        \/ \E j \in Occurrences(s, TABLE_CLOSE) : j < k /\ k <= j + Len(TABLE_CLOSE)
      keep == {k \in 1..Len(s) : ~ covered(k)}
  IN [n \in 1..Cardinality(keep) |-> s[Nth(keep, n)]]

\* C6: the plain-text export is the input with every occurrence of [TABLE] and
\* [/TABLE] deleted and nothing else changed
C6_OnlyMarkersDeleted ==
  op = "txt" => out = WithoutMarkers(content)

\* C7: the plain-text export holds no [TABLE] and no [/TABLE] marker, so
\* stripping it again changes nothing
C7_NoMarkerLeft ==
  op = "txt" =>
     /\ ~ Includes(out, TABLE_OPEN)
     /\ ~ Includes(out, TABLE_CLOSE)
     /\ plainContent(out) = out

\* C8: when the interior of the footer span does not split into three parts,
\* every renderer that returns emits no footer row and keeps the whole span in
\* the rendered text
C8_MalformedKept ==
  (op \in Renderers /\ HasOneSpan(content) /\ ~ ThreeParts(SpanInterior(content))
     /\ Finished(op, out)) =>
     /\ Footers(op, out) = <<>>
     /\ Includes(RenderedText(op, out), Visible(SpanText(content)))

\* the interiors of the footer spans of a text, in document order
RECURSIVE SpanList(_)
SpanList(s) ==
  LET i == IndexOf(s, FOOTER_OPEN)
      j == IndexOfFrom(s, FOOTER_CLOSE, i + Len(FOOTER_OPEN))
  IN IF i = -1 \/ j = -1 THEN <<>>
     ELSE <<SubSeq(s, i + Len(FOOTER_OPEN) + 1, j)>>
          \o SpanList(SubstringFrom(s, j + Len(FOOTER_CLOSE)))

\* C9: with several footer spans every renderer that returns emits at most one
\* footer row, that of the first span in document order that is well-formed
C9_FirstWellFormed ==
  (op \in Renderers /\ Len(SpanList(content)) >= 2 /\ Finished(op, out)) =>
     LET wellFormed == SelectSeq(SpanList(content), ThreeParts)
     IN IF wellFormed = <<>>
        THEN Footers(op, out) = <<>>
        ELSE /\ Len(Footers(op, out)) = 1
             /\ Footers(op, out)[1].parts = GrammarCells(wellFormed[1])

\* a text with one table block, without a non-blank line, and no footer marker
HasOneEmptyBlock(s) ==
  /\ ~ Includes(s, FOOTER_OPEN)
  /\ Cardinality(Occurrences(s, TABLE_OPEN)) = 1
  /\ Cardinality(Occurrences(s, TABLE_CLOSE)) = 1
  /\ Nth(Occurrences(s, TABLE_OPEN), 1) < Nth(Occurrences(s, TABLE_CLOSE), 1)
  /\ Visible(Interiors(s)[1]) = <<>>

\* C10: for a table block without a non-blank line every renderer returns,
\* renders nothing for the block and renders the text around it
C10_EmptyBlockSkipped ==
  (op \in Renderers /\ HasOneEmptyBlock(content)) =>
     /\ Finished(op, out)
     /\ Grids(op, out) = <<>>
     /\ RenderedText(op, out) =
          Visible(SubSeq(content, 1, Nth(Occurrences(content, TABLE_OPEN), 1))
                  \o SubstringFrom(content, Nth(Occurrences(content, TABLE_CLOSE), 1)
                                             + Len(TABLE_CLOSE)))

\* C11: for every document, malformed markup included, the table-scanning loop
\* of each renderer comes to an end: the renderer returns an output
C11_LoopTerminates ==
  op \in Renderers => Finished(op, out)

\* the exports that draw the letterhead with the logo
Exports == {"pdf", "image"}

\* C12: while the content and the logo URL stay what they were at mount, an
\* export run again gives the output of its run before, whatever happened in
\* the component in between
C12_SameOutput ==
  [][(op \in Exports /\ op' = op /\ Len(calls') = 1) => out' = out]_vars

\* the fetch of the loadLogo call for the configured URL has failed
LatestFailed == calls[Len(calls)].state = "failed"

\* a step that runs an export: the PDF handler or the start of the image export
ExportStep ==
  \/ op' = "pdf" /\ saved' = "pdf" /\ UNCHANGED <<logoVars, imageVars, thrown>>
  \/ exportPc = "idle" /\ exportPc' # "idle"

\* the output of an export shows a logo
RendersLogo(o, result) ==
  IF o = "pdf"
  THEN \E k \in 1..Len(result) : result[k].op = "logo"
  ELSE Finished(o, result) /\ result.logo.kind = "img"

\* C19: an export that runs after the fetch for the configured logo URL has
\* failed renders no logo, that of an earlier URL included
C19_NoLogoAfterFailure ==
  [][(LatestFailed /\ ExportStep) => ~ RendersLogo(op', out')]_vars

\* C20: html2canvas is not called while an img element of the container is
\* still loading, and every image export that was started comes to call it
C20_CaptureAfterImages ==
  /\ [](exportPc = "html2canvas" => img.state # "loading")
  /\ (exportPc \in {"hung", "timeout", "images"}) ~> (exportPc = "html2canvas")

\* the positions of the PDF calls of the given kinds
CallsOf(o, kinds) == {k \in 1..Len(o) : o[k].op \in kinds}

\* C13: the PDF draws the letterhead and its rule once, on the first page and
\* before any content, and a page break draws neither again
C13_LetterheadOnce ==
  op = "pdf" =>
     LET drawn == SelectSeq(out, LAMBDA d : d.op # "logo")
     IN /\ Len(drawn) >= 2
        /\ drawn[1].op = "letterhead" /\ drawn[1].page = 1
        /\ drawn[2].op = "rule" /\ drawn[2].page = 1
        /\ \A k \in CallsOf(out, {"logo"}) : out[k].page = 1 /\ k = 1
        /\ Cardinality(CallsOf(out, {"letterhead"})) = 1
        /\ Cardinality(CallsOf(out, {"rule"})) = 1

\* a PDF of several pages with content drawn after a page break
C13_Witness ==
  /\ op = "pdf"
  /\ \E k \in CallsOf(out, {"addPage"}) :
       \E j \in CallsOf(out, {"text", "heading", "row"}) : j > k

\* C14: the PDF draws a well-formed footer after all text and tables, on the
\* last page and above its bottom margin, the page being a new one when the
\* footer did not fit, with the left and centre part normal and the right bold
C14_FooterPlaced ==
  (op = "pdf" /\ CallsOf(out, {"footer"}) # {}) =>
     LET footer == out[Len(out)]
     IN /\ CallsOf(out, {"footer"}) = {Len(out)}
        /\ \A k \in 1..Len(out) : out[k].page <= footer.page
        /\ footer.y >= margin + mm(5) + mm(5)
        /\ footer.y <= textLimit + mm(5)
        /\ footer.y <= pageHeight - margin
        /\ footer.weights = <<"normal", "normal", "bold">>

\* a PDF whose footer did not fit and stands alone on a new page
C14_Witness ==
  /\ op = "pdf"
  /\ Len(out) > 3
  /\ out[Len(out)].op = "footer"
  /\ out[Len(out)].y = margin + mm(5) + mm(5)
  /\ out[Len(out) - 1].op = "addPage"
  /\ out[Len(out) - 2].op \in {"text", "heading", "row"}

\* the background of the data rows of an output, in order
PreviewTints(o) ==
  LET tables == SelectSeq(o, LAMBDA n : n.type = "table")
  IN Flatten([k \in 1..Len(tables) |-> tables[k].tints])

ImageTints(o) ==
  LET raw == SelectSeq(o.html, LAMBDA e : e.kind = "raw")
      rowTag(line) == SelectSeq(line, LAMBDA t : t \in {"<tr #ffffff>", "<tr #f0f4f8>"})
      tags == Flatten([k \in 1..Len(raw) |-> rowTag(raw[k].line)])
  IN [k \in 1..Len(tags) |-> IF tags[k] = "<tr #ffffff>" THEN "#ffffff" ELSE "#f0f4f8"]

PdfTints(o) ==
  LET rows == SelectSeq(o, LAMBDA d : d.op = "row" /\ ~ d.isHeader)
  IN [k \in 1..Len(rows) |-> IF rows[k].shaded THEN "#f0f4f8" ELSE "#ffffff"]

Tints(o, result) ==
  CASE o = "preview" -> PreviewTints(result)
    [] o = "pdf" -> PdfTints(result)
    [] o = "image" -> ImageTints(result)

\* the tints of the data rows of the grids by the parity of the zero-based
\* index of the row among the data rows of its table
ParityTints(grids) ==
  Flatten([t \in 1..Len(grids) |->
             [k \in 1..Len(grids[t].rows) |->
                IF (k - 1) % 2 = 0 THEN "#ffffff" ELSE "#f0f4f8"]])

\* C15: in the preview, the PDF and the image the k-th data row of a table of
\* a document of well-formed blocks, counted from zero without the header, has
\* the tint of the parity of k
C15_SameTint ==
  (op \in Renderers /\ Paired(Body(content))) =>
     Tints(op, out) = ParityTints(Grids(op, out))

\* the keywords of the allow-list of headings
AllowList == {KW_TIME_TABLE, KW_CIRCULAR, KW_NOTICE, KW_EXAMINATION, KW_HAPPY}

IsLetter(c) == \E k \in 1..26 : c = LowerLetters[k] \/ c = UpperLetters[k]
IsLower(c) == \E k \in 1..26 : c = LowerLetters[k]
IsMarker(t) == t \in {TABLE_OPEN, TABLE_CLOSE, FOOTER_OPEN, FOOTER_CLOSE}

\* a trimmed line that is not empty, equals its upper-case form, holds a letter
\* and is not a marker
IsCandidate(t) ==
  /\ t # <<>>
  /\ \A k \in 1..Len(t) : ~ IsLower(t[k])
  /\ \E k \in 1..Len(t) : IsLetter(t[k])
  /\ ~ IsMarker(t)

\* a trimmed line of more than three characters that equals its upper-case
\* form and holds a letter
IsLongCandidate(t) ==
  /\ Len(t) > 3
  /\ \A k \in 1..Len(t) : ~ IsLower(t[k])
  /\ \E k \in 1..Len(t) : IsLetter(t[k])

\* C16: the PDF styles a line as a heading only if it is an upper-case
\* candidate that holds a keyword of the allow-list, before a table as after
\* the last one
C16_PdfHeadingHasKeyword ==
  op = "pdf" =>
     \A k \in CallsOf(out, {"heading"}) :
        /\ IsCandidate(Trim(out[k].text))
        /\ \E w \in AllowList : Includes(Trim(out[k].text), w)

\* the lines an export styles as headings, trimmed, in order
Headings(o, result) ==
  IF o = "pdf"
  THEN LET calls_ == SelectSeq(result, LAMBDA d : d.op = "heading")
       IN [k \in 1..Len(calls_) |-> Trim(calls_[k].text)]
  ELSE LET divs == SelectSeq(result.html, LAMBDA e : e.kind = "heading")
       IN [k \in 1..Len(divs) |-> Trim(divs[k].line)]

\* C17: the PDF and the image style the same lines of a document of well-formed
\* blocks as headings
C17_SameHeadings ==
  (op \in Exports /\ Paired(Body(content))) =>
     Headings(op, out) = Headings("pdf", RenderOf("pdf", content))

\* no line of the text is wrapped by the PDF: a text call draws a whole line
NoWrap(s) ==
  /\ ~ Includes(s, FOOTER_OPEN)
  /\ \A k \in 1..Len(Split(s, "\n")) : Len(Split(s, "\n")[k]) <= WrapCols

\* C18: the renderers take a line for a heading candidate exactly when, trimmed,
\* it is not empty, equals its upper-case form, holds a letter and is not a
\* marker, a line of one to three characters as "ABC" included: so the PDF
\* styles exactly these lines as headings before a table, where no keyword is
\* asked for
C18_CandidateAnyLength ==
  (op = "pdf" /\ NoWrap(content)) =>
     \A k \in CallsOf(out, {"text", "heading"}) :
        out[k].where = "before" =>
           (out[k].op = "heading" <=> IsCandidate(Trim(out[k].text)))

\* C18, as the code has it: a line is a heading candidate exactly when, trimmed,
\* it has more than three characters, equals its upper-case form and holds a
\* letter; the PDF styles exactly these lines as headings before a table, and
\* every heading of the PDF and of the image is such a line
C18_CandidateLong ==
  /\ (op = "pdf" /\ NoWrap(content)) =>
        \A k \in CallsOf(out, {"text", "heading"}) :
           out[k].where = "before" =>
              (out[k].op = "heading" <=> IsLongCandidate(Trim(out[k].text)))
  /\ (op \in Exports /\ Finished(op, out)) =>
        \A k \in 1..Len(Headings(op, out)) : IsLongCandidate(Headings(op, out)[k])

\* the PDF of a document with the line "ABC" before a table, drawn as body text
C18_Witness ==
  /\ op = "pdf"
  /\ \E k \in CallsOf(out, {"text"}) :
       out[k].where = "before" /\ out[k].text = <<"A", "B", "C">>

\* C21: when an export throws the user is shown the failure toast, no file is
\* downloaded and no success toast is shown
C21_FailureNotified ==
  [][thrown' # thrown => (toast' = "error" /\ saved' = saved)]_vars

\* a grid written as one sequence: a mark for the table, for each row and for
\* each cell, and the visible characters of the cells
RowMarks(cells) == <<"#row">> \o Flatten([k \in 1..Len(cells) |-> <<"#cell">> \o Visible(cells[k])])
GridMarks(grid) ==
  <<"#table">> \o RowMarks(grid.header)
  \o Flatten([k \in 1..Len(grid.rows) |-> RowMarks(grid.rows[k])])

\* the text runs and tables of a text of paired markers, top to bottom, as one
\* sequence
RECURSIVE Reading(_)
Reading(s) ==
  LET i == IndexOf(s, TABLE_OPEN)
      j == IndexOfFrom(s, TABLE_CLOSE, i)
  IN IF i = -1 THEN Visible(s)
     ELSE Visible(SubSeq(s, 1, i))
          \o GridMarks(GrammarGrid(SubSeq(s, i + Len(TABLE_OPEN) + 1, j)))
          \o Reading(SubstringFrom(s, j + Len(TABLE_CLOSE)))

\* one line of the image as such a sequence
TagMark(t) ==
  IF t = TableOpenTag THEN <<"#table">>
  ELSE IF t \in {"<thead><tr>", "<tr #ffffff>", "<tr #f0f4f8>"} THEN <<"#row">>
  ELSE IF t \in {"<th>", "<td>"} THEN <<"#cell">>
  ELSE IF IsChar(t) THEN <<t>>
  ELSE <<>>

\* what an element of an output shows, as such a sequence
ElementReading(o, e) ==
  CASE o = "preview" -> IF e.type = "pre" THEN Visible(e.text)
                        ELSE IF e.type = "table"
                        THEN GridMarks([header |-> e.header, rows |-> e.rows])
                        ELSE <<>>
    [] o = "pdf" -> IF e.op \in {"text", "heading"} THEN Visible(e.text)
                    ELSE IF e.op = "row"
                    THEN (IF e.isHeader THEN <<"#table">> ELSE <<>>) \o RowMarks(e.row)
                    ELSE <<>>
    [] o = "image" -> IF e.kind = "footer" THEN <<>>
                      ELSE Flatten([k \in 1..Len(e.line) |-> TagMark(e.line[k])])

OutputReading(o, result) ==
  LET es == Elements(o, result)
  IN Flatten([k \in 1..Len(es) |-> ElementReading(o, es[k])])

InteriorsAfterOpen(s) ==
  LET closesAfter(i) == {j \in Occurrences(s, TABLE_CLOSE) : j > i}
  IN {SubSeq(s, i + Len(TABLE_OPEN) + 1, Min(closesAfter(i))) :
        i \in {a \in Occurrences(s, TABLE_OPEN) : closesAfter(a) # {}}}

\* C23: the interior of every table the preview and the PDF produce is the
\* text between a [TABLE] marker and the first [/TABLE] marker after it, never
\* a text that ends at a [/TABLE] marker before the [TABLE] marker
C23_InteriorAfterOpen ==
  op \in {"preview", "pdf"} =>
     \A k \in 1..Len(Grids(op, out)) :
        \E interior \in InteriorsAfterOpen(Body(content)) :
           /\ Trim(interior) # <<>>
           /\ Grids(op, out)[k] = GrammarGrid(interior)

\* the row calls of the table a row call belongs to
SameTable(rows, k) ==
  LET start(j) == Max({h \in 1..j : rows[h].isHeader})
  IN {j \in 1..Len(rows) : start(j) = start(k)}

\* micrometres of a length of the page geometry
Um(halfMm) == halfMm * 500

\* C24: the PDF draws every row of a table with as many cells as its longest
\* row has, the missing ones blank, all of one width, the printable width
\* less the inset divided by that number, side by side from the left margin or
\* right of it to pageWidth - margin or left of it
C24_ColumnsInsidePage ==
  op = "pdf" =>
     LET rows == PdfRowOps(out)
     IN \A k \in 1..Len(rows) :
          LET n == Max({Len(rows[j].row) : j \in SameTable(rows, k)})
              w == rows[k].colWidth
          IN /\ Len(rows[k].cells) = n
             /\ Len(rows[k].x) = n
             /\ \A c \in 1..n : c > Len(rows[k].row) => rows[k].cells[c] = <<>>
             /\ w * n <= Um(maxWidth - mm(4))
             /\ (w + 1) * n > Um(maxWidth - mm(4))
             /\ rows[k].x[1] >= Um(margin)
             /\ \A c \in 1..(n - 1) : rows[k].x[c + 1] = rows[k].x[c] + w
             /\ rows[k].x[n] + w <= Um(pageWidth - margin)

\* the PDF of a table whose data row has fewer cells than its header
C24_Witness ==
  /\ op = "pdf"
  /\ \E k \in CallsOf(out, {"row"}) :
       /\ Len(out[k].cells) >= 3
       /\ Len(out[k].row) < Len(out[k].cells)

\* C25: the text the PDF draws in a cell is the cell text cut at its end to
\* the longest prefix that is not wider than the column less its padding
\* (nothing when not even one character fits), on one line: the rows of a
\* table on one page are one cell height apart whatever their text
C25_LongestFittingPrefix ==
  op = "pdf" =>
     LET rows == PdfRowOps(out)
     IN \A k \in 1..Len(rows) :
          /\ \A c \in 1..Len(rows[k].row) :
               LET source == rows[k].row[c]
                   drawn == rows[k].cells[c]
                   available == rows[k].colWidth - Um(2 * cellPadding)
               IN /\ IsPrefix(drawn, source)
                  /\ drawn # <<>> => textWidthUm(drawn) <= available
                  /\ drawn # source =>
                       textWidthUm(SubSeq(source, 1, Len(drawn) + 1)) > available
                  /\ \A i \in 1..Len(drawn) : drawn[i] # "\n"
          /\ (k > 1 /\ rows[k].page = rows[k - 1].page /\ ~ rows[k].isHeader) =>
               rows[k].y = rows[k - 1].y + cellHeight

\* the PDF of a table with a cell cut to a part of its text and a row below
C25_Witness ==
  /\ op = "pdf"
  /\ LET rows == PdfRowOps(out)
     IN /\ Len(rows) = 2
        /\ \E c \in 1..Len(rows[2].row) :
             /\ rows[2].cells[c] # <<>>
             /\ rows[2].cells[c] # rows[2].row[c]
        /\ \E c \in 1..Len(rows[1].row) : rows[1].cells[c] = rows[1].row[c]

\* a cell of which the PDF draws nothing
C25_CutToNothing ==
  /\ op = "pdf"
  /\ \E k \in CallsOf(out, {"row"}) :
       \E c \in 1..Len(out[k].row) : out[k].row[c] # <<>> /\ out[k].cells[c] = <<>>

\* the body of the PDF: its wrapped lines, headings and table rows, as drawn
PdfUnits(o) == SelectSeq(o, LAMBDA d : d.op \in {"text", "heading", "row"})

\* C26: of two units the PDF draws one after the other on one page (wrapped
\* body lines, heading lines, table rows), the later one is drawn lower
C26_CursorAdvances ==
  op = "pdf" =>
     LET units == PdfUnits(out)
     IN \A k \in 2..Len(units) :
          units[k].page = units[k - 1].page => units[k].y > units[k - 1].y

\* C27: once every loadLogo call has set its data URL, none failed and none
\* in flight, logoBase64 is that of the call for the URL configured last
C27_LatestLogoWins ==
  (\A i \in 1..Len(calls) : calls[i].state = "read") =>
     logoBase64.url = calls[Len(calls)].url

\* C28: a path validateFilePath returns starts with the user's id and a
\* slash and holds neither "../" nor "..\"
C28_NoTraversal ==
  (op = "validateFilePath" /\ out.status = "ok") =>
     /\ StartsWith(out.path, USER_ID \o <<"/">>)
     /\ ~ Includes(out.path, PATH_UP)
     /\ ~ Includes(out.path, PATH_UP_BACK)

\* C29: every iteration of the loop of chunkText that is followed by another
\* one moves the start index forward
C29_StartIncreases ==
  [][(op = "chunkText" /\ op' = "chunkText") => out'.start > out.start]_vars

\* the injection patterns sanitizeForPrompt removes, in upper case
Patterns == {P_SYSTEM, P_USER, P_ASSISTANT, P_IGNORE, P_DISREGARD}

\* C30: a field sanitizeForPrompt returns holds none of the patterns in any
\* case, and sanitizing it again gives the same text
C30_NoPatternLeft ==
  op = "sanitizeForPrompt" =>
     /\ \A pat \in Patterns : ~ Includes(ToUpperCase(out), pat)
     /\ sanitizeForPrompt(out) = out

====
